---- MODULE Spec2Model ----
(***************************************************************************)
(* Model of src/app.py: the Streamlit IoT dashboard.                       *)
(*                                                                         *)
(* Process-wide state : GLOBAL_MQ, the cached publisher client, the CSV    *)
(*                      file, the MQTT worker threads.                     *)
(* Per-session state  : st.session_state (logs, last, last_status,         *)
(*                      mqtt_thread_started, ml_model) and the position of *)
(*                      the session's script run inside process_queue.     *)
(*                                                                         *)
(* Ghost state (not in the code, used only to state properties): seq/mid   *)
(* markers on events and rows, hist, and the run record of a drain.        *)
(***************************************************************************)
EXTENDS Integers, Sequences, FiniteSets, TLC

\* ------------------------------------------------------------------ bounds
\* number of Streamlit sessions (browser tabs) of the one process
NumSessions == 2
\* number of inbound messages the broker delivers on TOPIC_SENSOR
MaxMsgs == 2
\* number of transport failures in total (a connect that raises, a refused
\* connection, a lost connection, a loop_forever that raises)
MaxFail == 1
\* the log capacity; stands for the 5000 of app.py:245-246
MaxLogs == 2

\* number of items on GLOBAL_MQ when a drain-only behaviour starts
MaxItems == 3

Sessions == 1..NumSessions
\* a session spawns at most one worker (app.py:133-136); the worker is named
\* after the session that spawned it
Workers == Sessions

\* --------------------------------------------------------- payload values
\* value of a key of the JSON object: the key is absent, a number, a JSON
\* string that is no number, or the literal NaN (json.loads accepts it)
MISSING == "<missing>"
BAD == "abc"
NAN == "NaN"
GoodData ==
  [kind |-> "obj", suhu |-> "21.5", lembap |-> "60.0", light |-> "1200.0",
   rawLight |-> "300", label |-> "Aman"]
\* what json.loads returns when the text is JSON but not an object
NonObjData ==
  [kind |-> "nonobj", suhu |-> MISSING, lembap |-> MISSING, light |-> MISSING,
   rawLight |-> MISSING, label |-> MISSING]
\* the payloads the broker delivers: the good one and deviations of it
Datas ==
  {GoodData, NonObjData,
   [GoodData EXCEPT !.suhu = BAD],
   [GoodData EXCEPT !.lembap = MISSING],
   [GoodData EXCEPT !.light = NAN],
   [GoodData EXCEPT !.rawLight = MISSING],
   [GoodData EXCEPT !.rawLight = BAD],
   [GoodData EXCEPT !.suhu = MISSING, !.rawLight = MISSING, !.label = MISSING]}
\* an inbound MQTT message: its text parses as JSON (to data) or does not
Messages ==
  {[json |-> TRUE, data |-> d] : d \in Datas} \cup {[json |-> FALSE, data |-> NonObjData]}

\* the messages of the whole-system specification: a good one, one whose
\* classification is skipped, one whose parsing raises, one that is no JSON
SysMessages ==
  {[json |-> TRUE, data |-> GoodData],
   [json |-> TRUE, data |-> [GoodData EXCEPT !.lembap = MISSING]],
   [json |-> TRUE, data |-> [GoodData EXCEPT !.rawLight = MISSING]],
   [json |-> FALSE, data |-> NonObjData]}

\* ----------------------------------------------------------- queue items
NoEvent ==
  [type |-> "none", connected |-> FALSE, data |-> NonObjData, ts |-> 0, mid |-> 0, seq |-> 0]
StatusEvent(c, t) == [NoEvent EXCEPT !.type = "status", !.connected = c, !.ts = t]
ErrorEvent(t) == [NoEvent EXCEPT !.type = "error", !.ts = t]
RawEvent(t, m) == [NoEvent EXCEPT !.type = "raw", !.ts = t, !.mid = m]
SensorEvent(d, t, m) == [NoEvent EXCEPT !.type = "sensor", !.data = d, !.ts = t, !.mid = m]

VARIABLES
  queue,        \* GLOBAL_MQ: sequence of items, head first
  pushed,       \* ghost: number of items ever put on GLOBAL_MQ
  sent,         \* ghost: number of inbound messages the broker has delivered
  failures,     \* ghost: number of transport failures so far
  now,          \* time.time(): the clock, read by every stamp of a message
  pub_client,   \* the cached publisher client: "unset", "None" or "client"
  csv_exists,   \* os.path.exists(CSV_LOG_PATH)
  csv_rows,     \* the rows of the CSV file
  wpc,          \* worker thread: position
  inflight,     \* worker thread: messages delivered to its socket, not yet handled
  wpend,        \* worker thread: the item it built and is about to put
  spc,          \* session: position of its script run
  logs,         \* session: st.session_state.logs
  last,         \* session: st.session_state.last (<<>> when None, else <<row>>)
  last_status,  \* session: st.session_state.last_status
  mqtt_thread_started, \* session: st.session_state.mqtt_thread_started
  ml_model,     \* session: st.session_state.ml_model is not None
  updated,      \* session: process_queue's local 'updated'
  item,         \* session: process_queue's local 'item'
  ret,          \* session: outcome of the process_queue run
  st_errors,    \* session: number of st.error calls of the script run
  hist,         \* ghost: every row ever placed in the session's log, in order: its seq
                \*        and where it came from ("csv" or "queue")
  run           \* ghost: what the process_queue run has done so far

vars ==
  <<queue, pushed, sent, failures, now, pub_client, csv_exists, csv_rows,
    wpc, inflight, wpend, spc, logs, last, last_status, mqtt_thread_started,
    ml_model, updated, item, ret, st_errors, hist, run>>
procVars == <<queue, pushed, sent, failures, now, pub_client, csv_exists, csv_rows>>
workerVars == <<wpc, inflight, wpend>>
sessionVars ==
  <<spc, logs, last, last_status, mqtt_thread_started, ml_model, updated, item, ret,
    st_errors, hist, run>>

\* ------------------------------------------------- conversions (pure)
RAISE == "<raise>"
NOKEY == "<no key>"
\* float(d.get(k, np.nan)), app.py:176-178: an absent key gives nan, a
\* non-numeric string raises ValueError
PyFloat(v) ==
  CASE v = MISSING -> "nan"
    [] v = NAN -> "nan"
    [] v = BAD -> RAISE
    [] OTHER -> v
\* int(d.get("rawLight", np.nan)), app.py:179: int(nan) raises ValueError, so
\* an absent key raises as a non-numeric string does
PyInt(v) ==
  CASE v = MISSING -> RAISE
    [] v = NAN -> RAISE
    [] v = BAD -> RAISE
    [] OTHER -> v
\* d.get("label", "N/A"), app.py:180
GetLabel(v) == IF v = MISSING THEN "N/A" ELSE v

\* the classifier's outcomes: a class (7 stands for any class other than
\* 0, 1, 2) or an exception raised by predict
Predictions == {"0", "1", "2", "7"}
ClassifierOutcomes == Predictions \cup {RAISE}
\* pub_client.publish: sent, an exception, or a return code other than 0
\* (which the code does not read)
PublishOutcomes == {"ok", RAISE, "rejected"}
\* the outcomes drawn in the whole-system specification
SysClassifierOutcomes == {"0", RAISE}
SysPublishOutcomes == {"ok", RAISE}

\* app.py:213-226, the label of a prediction
Interpret(p) ==
  CASE p = "0" -> "Aman (0) - HIJAU"
    [] p = "1" -> "TIDAK AMAN (1) - MERAH"
    [] p = "2" -> "Waspada (2) - KUNING"
    [] OTHER -> "UNKNOWN (7)"
\* app.py:213-226, the LED command of a prediction
Command(p) ==
  CASE p = "0" -> "LED_HIJAU"
    [] p = "1" -> "LED_MERAH"
    [] p = "2" -> "LED_KUNING"
    [] OTHER -> "LED_MERAH"

ML_ERROR_PREDICT == "ML Error: <predict exception>"
ML_ERROR_PUBLISH == "ML Error: <publish exception>"
CLIENT_DOWN == "ERROR PUBLISH (Client Down)"

\* app.py:182-191, the row before classification
BaseRow(it, suhu, lembap, light, rawLight) ==
  [ts |-> it.ts, suhu |-> suhu, lembap |-> lembap, light |-> light,
   rawLight |-> rawLight, status_esp |-> GetLabel(it.data.label),
   prediksi_server |-> "N/A", perintah_terkirim |-> "N/A",
   prediksi_server_raw |-> "N/A", seq |-> it.seq]

\* app.py:201, the guard of the classification
ShouldClassify(model, suhu, lembap, light) ==
  model /\ "nan" \notin {suhu, lembap, light}

\* app.py:201-239: the row after classification and publish, and, for the
\* properties, what happened: the token that went out on TOPIC_OUTPUT (""
\* when none), whether predict was called, whether it raised, and how the
\* publish ended ("" when none was attempted, "down" when pub_client is None).
\* cls is what predict does, pub what publish does.
Classified(row, model, pubc, cls, pub) ==
  IF ~ShouldClassify(model, row.suhu, row.lembap, row.light)
  THEN [row |-> row, out |-> "", called |-> FALSE, failed |-> FALSE, pub |-> ""]
  ELSE IF cls = RAISE
  THEN [row |-> [row EXCEPT !.prediksi_server = ML_ERROR_PREDICT],
        out |-> "", called |-> TRUE, failed |-> TRUE, pub |-> ""]
  ELSE IF pubc # "client"
  THEN [row |-> [row EXCEPT !.prediksi_server = Interpret(cls),
                            !.prediksi_server_raw = cls,
                            !.perintah_terkirim = CLIENT_DOWN],
        out |-> "", called |-> TRUE, failed |-> FALSE, pub |-> "down"]
  ELSE IF pub = RAISE
  THEN [row |-> [row EXCEPT !.prediksi_server = ML_ERROR_PUBLISH,
                            !.prediksi_server_raw = cls],
        out |-> "", called |-> TRUE, failed |-> FALSE, pub |-> RAISE]
  ELSE [row |-> [row EXCEPT !.prediksi_server = Interpret(cls),
                            !.prediksi_server_raw = cls,
                            !.perintah_terkirim = Command(cls)],
        out |-> IF pub = "ok" THEN Command(cls) ELSE "",
        called |-> TRUE, failed |-> FALSE, pub |-> pub]

\* app.py:173-179: does the parsing of the item raise
ParseRaises(d) ==
  \/ d.kind # "obj"
  \/ RAISE \in {PyFloat(d.suhu), PyFloat(d.lembap), PyFloat(d.light), PyInt(d.rawLight)}

\* app.py:172-243, the sensor branch up to the row it appends
ProcessSensor(it, model, pubc, cls, pub) ==
  IF ParseRaises(it.data)
  THEN [raised |-> TRUE, row |-> BaseRow(it, "nan", "nan", "nan", "0"),
        out |-> "", called |-> FALSE, failed |-> FALSE, pub |-> ""]
  ELSE LET d == it.data
           c == Classified(BaseRow(it, PyFloat(d.suhu), PyFloat(d.lembap),
                                   PyFloat(d.light), PyInt(d.rawLight)),
                           model, pubc, cls, pub)
       IN [raised |-> FALSE, row |-> c.row, out |-> c.out, called |-> c.called,
           failed |-> c.failed, pub |-> c.pub]

\* app.py:245-246, logs[-5000:]
Truncate(l) == IF Len(l) > MaxLogs THEN SubSeq(l, Len(l) - MaxLogs + 1, Len(l)) ELSE l

\* ------------------------------------------------------------ CSV mirror
\* DataFrame.to_csv writes NaN as the empty cell
ToCsvCell(v) == IF v = "nan" THEN "" ELSE v
\* pandas.read_csv reads these cells as NaN
CsvNA == {"", "N/A", "NA", "NaN", "nan", "null", "None"}
FromCsvCell(c) == IF c \in CsvNA THEN "nan" ELSE c
\* app.py:257, the exported columns of one row (seq is the ghost marker)
ExportRow(r) ==
  [ts |-> r.ts, suhu |-> ToCsvCell(r.suhu), lembap |-> ToCsvCell(r.lembap),
   light |-> ToCsvCell(r.light), rawLight |-> ToCsvCell(r.rawLight),
   prediksi_server |-> ToCsvCell(r.prediksi_server), seq |-> r.seq]
\* app.py:59-60, one record of read_csv(...).to_dict('records')
LoadRow(c) ==
  [ts |-> c.ts, suhu |-> FromCsvCell(c.suhu), lembap |-> FromCsvCell(c.lembap),
   light |-> FromCsvCell(c.light), rawLight |-> FromCsvCell(c.rawLight),
   status_esp |-> NOKEY, prediksi_server |-> FromCsvCell(c.prediksi_server),
   perintah_terkirim |-> NOKEY, prediksi_server_raw |-> NOKEY, seq |-> c.seq]
\* app.py:254-260, the table written to the file
ExportLogs(l) == [i \in 1..Len(l) |-> ExportRow(l[i])]
\* app.py:59-60, the records read from the file
LoadLogs(rows) == [i \in 1..Len(rows) |-> LoadRow(rows[i])]

\* ghost: nothing done yet. sensors, appended, types and predictRaised are
\* about the whole run; called, out and pub about the item taken last; write
\* is how the write of the CSV file ended ("" when none was attempted)
NoRun ==
  [sensors |-> 0, appended |-> 0, types |-> {}, predictRaised |-> FALSE,
   called |-> FALSE, out |-> "", pub |-> "", write |-> ""]

\* ------------------------------------------------------------------ Init
\* the process has started, no session has run the script yet, the CSV file
\* does not exist
Init ==
  /\ queue = <<>>
  /\ pushed = 0
  /\ sent = 0
  /\ failures = 0
  /\ now = 0
  /\ pub_client = "unset"
  /\ csv_exists = FALSE
  /\ csv_rows = <<>>
  /\ wpc = [w \in Workers |-> "none"]
  /\ inflight = [w \in Workers |-> <<>>]
  /\ wpend = [w \in Workers |-> NoEvent]
  /\ spc = [s \in Sessions |-> "new"]
  /\ logs = [s \in Sessions |-> <<>>]
  /\ last = [s \in Sessions |-> <<>>]
  /\ last_status = [s \in Sessions |-> "unset"]
  /\ mqtt_thread_started = [s \in Sessions |-> FALSE]
  /\ ml_model = [s \in Sessions |-> FALSE]
  /\ updated = [s \in Sessions |-> FALSE]
  /\ item = [s \in Sessions |-> NoEvent]
  /\ ret = [s \in Sessions |-> "none"]
  /\ st_errors = [s \in Sessions |-> 0]
  /\ hist = [s \in Sessions |-> <<>>]
  /\ run = [s \in Sessions |-> NoRun]

\* ------------------------------------------------------- the MQTT worker
\* a LifoQueue in the place of the Queue
PutLifo(q, it, n) == <<[it EXCEPT !.seq = n + 1]>> \o q
\* queue.Queue.put: the item is appended (seq is the ghost arrival marker)
Put(q, it, n) == Append(q, [it EXCEPT !.seq = n + 1])

\* the thread ends when connect or loop_forever raises
WorkerExits == "dead"
\* app.py:125,129-131: where the worker is after the except clause: the
\* while True loop goes on with the next round, at client.connect
AfterRaise == "connect"

\* worker(), app.py:125-131: client.connect(...) at the start of the thread
\* or after the sleep of the previous round. It returns and the worker enters
\* loop_forever, or it raises and the worker queues an error and sleeps.
WorkerConnect(w, ok) ==
  /\ wpc[w] = "connect"
  /\ IF ok
     THEN /\ wpc' = [wpc EXCEPT ![w] = "loop"]
          /\ UNCHANGED <<queue, pushed, failures>>
     ELSE /\ failures < MaxFail
          /\ failures' = failures + 1
          /\ wpc' = [wpc EXCEPT ![w] = AfterRaise]
          /\ queue' = Put(queue, ErrorEvent(now), pushed)
          /\ pushed' = pushed + 1
  /\ UNCHANGED <<sent, now, pub_client, csv_exists, csv_rows>>
  /\ UNCHANGED <<inflight, wpend>>
  /\ UNCHANGED sessionVars

\* _on_connect, app.py:102-107, called by loop_forever on CONNACK with rc = 0
\* (rc0) or a refusal
OnConnect(w, rc0) ==
  /\ wpc[w] = "loop"
  /\ wpend[w] = NoEvent
  /\ rc0 \/ failures < MaxFail
  /\ failures' = IF rc0 THEN failures ELSE failures + 1
  /\ wpc' = [wpc EXCEPT ![w] = IF rc0 THEN "online" ELSE "offline"]
  /\ queue' = Put(queue, StatusEvent(rc0, now), pushed)
  /\ pushed' = pushed + 1
  /\ UNCHANGED <<sent, now, pub_client, csv_exists, csv_rows>>
  /\ UNCHANGED <<inflight, wpend>>
  /\ UNCHANGED sessionVars

\* the connection drops while loop_forever runs; the worker sets no
\* on_disconnect callback (app.py:122-124), so nothing is queued
ConnectionLost(w) ==
  /\ wpc[w] = "online"
  /\ wpend[w] = NoEvent
  /\ failures < MaxFail
  /\ failures' = failures + 1
  /\ wpc' = [wpc EXCEPT ![w] = "offline"]
  /\ UNCHANGED <<queue, pushed, sent, now, pub_client, csv_exists, csv_rows>>
  /\ UNCHANGED <<inflight, wpend>>
  /\ UNCHANGED sessionVars

\* loop_forever reconnects by itself (app.py:128)
Reconnect(w) ==
  /\ wpc[w] = "offline"
  /\ wpend[w] = NoEvent
  /\ wpc' = [wpc EXCEPT ![w] = "loop"]
  /\ UNCHANGED procVars
  /\ UNCHANGED <<inflight, wpend>>
  /\ UNCHANGED sessionVars

\* loop_forever raises, app.py:128-131: an error is queued and the worker
\* sleeps before the next round
LoopRaise(w) ==
  /\ wpc[w] \in {"loop", "online", "offline"}
  /\ wpend[w] = NoEvent
  /\ failures < MaxFail
  /\ failures' = failures + 1
  /\ wpc' = [wpc EXCEPT ![w] = AfterRaise]
  /\ queue' = Put(queue, ErrorEvent(now), pushed)
  /\ pushed' = pushed + 1
  /\ inflight' = [inflight EXCEPT ![w] = <<>>]
  /\ UNCHANGED <<sent, now, pub_client, csv_exists, csv_rows>>
  /\ UNCHANGED wpend
  /\ UNCHANGED sessionVars

\* the broker delivers one message of TOPIC_SENSOR to every subscribed
\* worker (a message delivered while no worker is subscribed leaves no trace)
BrokerPublish(m) ==
  /\ sent < MaxMsgs
  /\ \E w \in Workers : wpc[w] = "online"
  /\ sent' = sent + 1
  /\ inflight' = [w \in Workers |->
                    IF wpc[w] = "online"
                    THEN Append(inflight[w], [json |-> m.json, data |-> m.data, mid |-> sent + 1])
                    ELSE inflight[w]]
  /\ UNCHANGED <<queue, pushed, failures, now, pub_client, csv_exists, csv_rows>>
  /\ UNCHANGED <<wpc, wpend>>
  /\ UNCHANGED sessionVars

\* _on_message, app.py:109-118, up to the put: the payload is decoded and the
\* item is built and stamped with time.time(); the clock has advanced since
\* the previous stamp
OnMessage(w) ==
  /\ wpc[w] \in {"loop", "online", "offline"}
  /\ wpend[w] = NoEvent
  /\ inflight[w] # <<>>
  /\ now' = now + 1
  /\ LET m == Head(inflight[w])
     IN wpend' = [wpend EXCEPT ![w] = IF m.json THEN SensorEvent(m.data, now + 1, m.mid)
                                                 ELSE RawEvent(now + 1, m.mid)]
  /\ inflight' = [inflight EXCEPT ![w] = Tail(inflight[w])]
  /\ UNCHANGED <<queue, pushed, sent, failures, pub_client, csv_exists, csv_rows>>
  /\ UNCHANGED wpc
  /\ UNCHANGED sessionVars

\* GLOBAL_MQ.put(item) of _on_message by worker w, app.py:115,118
QueuePut(w) ==
  /\ wpend[w] # NoEvent
  /\ queue' = Put(queue, wpend[w], pushed)
  /\ pushed' = pushed + 1
  /\ wpend' = [wpend EXCEPT ![w] = NoEvent]
  /\ UNCHANGED <<sent, failures, now, pub_client, csv_exists, csv_rows>>
  /\ UNCHANGED <<wpc, inflight>>
  /\ UNCHANGED sessionVars

\* ------------------------------------------------- a session's script run
\* app.py:52-97, the first script run of a session: session_state is filled,
\* the log from the CSV file when it exists and can be read (loadOk), the
\* publisher client is created once per process (st.cache_resource)
SessionInit(s, loadOk, modelOk, pubOk) ==
  /\ spc[s] = "new"
  /\ LET loaded == IF csv_exists /\ loadOk THEN LoadLogs(csv_rows) ELSE <<>>
     IN /\ logs' = [logs EXCEPT ![s] = loaded]
        /\ hist' = [hist EXCEPT ![s] = [i \in 1..Len(loaded) |-> [seq |-> loaded[i].seq, src |-> "csv"]]]
  /\ last' = [last EXCEPT ![s] = <<>>]
  /\ mqtt_thread_started' = [mqtt_thread_started EXCEPT ![s] = FALSE]
  /\ ml_model' = [ml_model EXCEPT ![s] = modelOk]
  /\ pub_client' = IF pub_client = "unset"
                   THEN (IF pubOk THEN "client" ELSE "None")
                   ELSE pub_client
  /\ spc' = [spc EXCEPT ![s] = "start"]
  /\ UNCHANGED <<queue, pushed, sent, failures, now, csv_exists, csv_rows>>
  /\ UNCHANGED workerVars
  /\ UNCHANGED <<last_status, updated, item, ret, st_errors, run>>

\* app.py:133, the guard of start_mqtt_thread_once: the flag of the session
ShouldStartThread(s) == ~mqtt_thread_started[s]

\* while not q.empty(), app.py:160: where process_queue goes next
LoopTest(q) == IF q = <<>> THEN "csv" ELSE "get"

\* one script run up to the first test of the queue: start_mqtt_thread_once,
\* app.py:120-139, then process_queue is entered, app.py:156-160 (reached
\* from session init, and from the end of the previous script run, whose
\* locals, page and ghost bookkeeping are dropped)
ScriptRun(s) ==
  /\ spc[s] \in {"start", "done"}
  /\ IF ShouldStartThread(s)
     THEN /\ wpc' = [wpc EXCEPT ![s] = "connect"]
          /\ mqtt_thread_started' = [mqtt_thread_started EXCEPT ![s] = TRUE]
     ELSE UNCHANGED <<wpc, mqtt_thread_started>>
  /\ updated' = [updated EXCEPT ![s] = FALSE]
  /\ item' = [item EXCEPT ![s] = NoEvent]
  /\ ret' = [ret EXCEPT ![s] = "running"]
  /\ run' = [run EXCEPT ![s] = NoRun]
  /\ st_errors' = [st_errors EXCEPT ![s] = 0]
  /\ spc' = [spc EXCEPT ![s] = LoopTest(queue)]
  /\ UNCHANGED procVars
  /\ UNCHANGED <<inflight, wpend>>
  /\ UNCHANGED <<logs, last, last_status, ml_model, hist>>

\* updated set by the sensor branch alone
SetsUpdatedSensorOnly(ttype) == ttype = "sensor"
\* which item types set updated, app.py:166,170,247
SetsUpdated(ttype) == ttype \in {"status", "error", "sensor"}

\* ghost: the run's bookkeeping after an item of type ttype was taken
Drained(r, ttype) ==
  [r EXCEPT !.types = @ \cup {ttype},
            !.sensors = IF ttype = "sensor" THEN @ + 1 ELSE @,
            !.called = FALSE, !.out = "", !.pub = ""]

\* the status item read the wrong way round
GetConnectedInverted(it) == IF it.connected THEN "False" ELSE "True"
\* item.get("connected", False), app.py:165
GetConnected(it) == IF it.connected THEN "True" ELSE "False"

\* q.get() returns a status item, app.py:161-166, and the loop tests the queue
PQ_Status(s) ==
  /\ spc[s] = "get"
  /\ queue # <<>>
  /\ Head(queue).type = "status"
  /\ queue' = Tail(queue)
  /\ item' = [item EXCEPT ![s] = Head(queue)]
  /\ last_status' = [last_status EXCEPT ![s] = GetConnected(Head(queue))]
  /\ updated' = [updated EXCEPT ![s] = updated[s] \/ SetsUpdated("status")]
  /\ run' = [run EXCEPT ![s] = Drained(run[s], "status")]
  /\ spc' = [spc EXCEPT ![s] = LoopTest(queue')]
  /\ UNCHANGED <<pushed, sent, failures, now, pub_client, csv_exists, csv_rows>>
  /\ UNCHANGED workerVars
  /\ UNCHANGED <<logs, last, mqtt_thread_started, ml_model, ret, st_errors, hist>>

\* q.get() returns an error item, app.py:161-162,168-170
PQ_Error(s) ==
  /\ spc[s] = "get"
  /\ queue # <<>>
  /\ Head(queue).type = "error"
  /\ queue' = Tail(queue)
  /\ item' = [item EXCEPT ![s] = Head(queue)]
  /\ st_errors' = [st_errors EXCEPT ![s] = @ + 1]
  /\ updated' = [updated EXCEPT ![s] = updated[s] \/ SetsUpdated("error")]
  /\ run' = [run EXCEPT ![s] = Drained(run[s], "error")]
  /\ spc' = [spc EXCEPT ![s] = LoopTest(queue')]
  /\ UNCHANGED <<pushed, sent, failures, now, pub_client, csv_exists, csv_rows>>
  /\ UNCHANGED workerVars
  /\ UNCHANGED <<logs, last, last_status, mqtt_thread_started, ml_model, ret, hist>>

\* q.get() returns a raw item: no branch of app.py:164-172 takes it
PQ_Raw(s) ==
  /\ spc[s] = "get"
  /\ queue # <<>>
  /\ Head(queue).type = "raw"
  /\ queue' = Tail(queue)
  /\ item' = [item EXCEPT ![s] = Head(queue)]
  /\ updated' = [updated EXCEPT ![s] = updated[s] \/ SetsUpdated("raw")]
  /\ run' = [run EXCEPT ![s] = Drained(run[s], "raw")]
  /\ spc' = [spc EXCEPT ![s] = LoopTest(queue')]
  /\ UNCHANGED <<pushed, sent, failures, now, pub_client, csv_exists, csv_rows>>
  /\ UNCHANGED workerVars
  /\ UNCHANGED <<logs, last, last_status, mqtt_thread_started, ml_model, ret, st_errors, hist>>

\* q.get() returns a sensor item, app.py:161-162,172-247. When the parsing
\* raises, the exception leaves process_queue and ends the script run.
PQ_Sensor(s, cls, pub) ==
  /\ spc[s] = "get"
  /\ queue # <<>>
  /\ Head(queue).type = "sensor"
  /\ queue' = Tail(queue)
  /\ item' = [item EXCEPT ![s] = Head(queue)]
  /\ LET r == ProcessSensor(Head(queue), ml_model[s], pub_client, cls, pub)
         d == Drained(run[s], "sensor")
     IN IF r.raised
        THEN /\ ret' = [ret EXCEPT ![s] = "raised"]
             /\ spc' = [spc EXCEPT ![s] = "done"]
             /\ run' = [run EXCEPT ![s] = d]
             /\ UNCHANGED <<logs, last, hist, updated>>
        ELSE /\ last' = [last EXCEPT ![s] = <<r.row>>]
             /\ logs' = [logs EXCEPT ![s] = Truncate(Append(logs[s], r.row))]
             /\ hist' = [hist EXCEPT ![s] = Append(hist[s], [seq |-> r.row.seq, src |-> "queue"])]
             /\ updated' = [updated EXCEPT ![s] = updated[s] \/ SetsUpdated("sensor")]
             /\ run' = [run EXCEPT ![s] =
                          [d EXCEPT !.appended = @ + 1, !.called = r.called,
                                    !.out = r.out, !.pub = r.pub,
                                    !.predictRaised = @ \/ r.failed]]
             /\ spc' = [spc EXCEPT ![s] = LoopTest(queue')]
             /\ ret' = ret
  /\ UNCHANGED <<pushed, sent, failures, now, pub_client, csv_exists, csv_rows>>
  /\ UNCHANGED workerVars
  /\ UNCHANGED <<last_status, mqtt_thread_started, ml_model, st_errors>>

\* the file written whenever the log is not empty
ShouldWriteCsvAlways(upd, l) == l # <<>>
\* app.py:252, the guard of the write of the CSV file
ShouldWriteCsv(upd, l) == upd /\ l # <<>>

\* app.py:252-267: the CSV file is rewritten when updated is set and the log
\* is not empty (a failing write is swallowed), and updated is returned
PQ_Csv(s, writeOk) ==
  /\ spc[s] = "csv"
  /\ IF ShouldWriteCsv(updated[s], logs[s]) /\ writeOk
     THEN /\ csv_exists' = TRUE
          /\ csv_rows' = ExportLogs(logs[s])
     ELSE UNCHANGED <<csv_exists, csv_rows>>
  /\ run' = [run EXCEPT ![s].write =
               IF ShouldWriteCsv(updated[s], logs[s])
               THEN (IF writeOk THEN "ok" ELSE "failed") ELSE ""]
  /\ ret' = [ret EXCEPT ![s] = IF updated[s] THEN "True" ELSE "False"]
  /\ spc' = [spc EXCEPT ![s] = "done"]
  /\ UNCHANGED <<queue, pushed, sent, failures, now, pub_client>>
  /\ UNCHANGED workerVars
  /\ UNCHANGED <<logs, last, last_status, mqtt_thread_started, ml_model, updated, item,
                 st_errors, hist>>

\* the browser tab is closed or reloaded between two script runs: the
\* session and its session_state are gone; the worker thread it started is
\* a daemon thread of the process and lives on
SessionEnd(s) ==
  /\ spc[s] = "done"
  /\ spc' = [spc EXCEPT ![s] = "closed"]
  /\ logs' = [logs EXCEPT ![s] = <<>>]
  /\ last' = [last EXCEPT ![s] = <<>>]
  /\ last_status' = [last_status EXCEPT ![s] = "unset"]
  /\ mqtt_thread_started' = [mqtt_thread_started EXCEPT ![s] = FALSE]
  /\ ml_model' = [ml_model EXCEPT ![s] = FALSE]
  /\ updated' = [updated EXCEPT ![s] = FALSE]
  /\ item' = [item EXCEPT ![s] = NoEvent]
  /\ ret' = [ret EXCEPT ![s] = "none"]
  /\ st_errors' = [st_errors EXCEPT ![s] = 0]
  /\ hist' = [hist EXCEPT ![s] = <<>>]
  /\ run' = [run EXCEPT ![s] = NoRun]
  /\ UNCHANGED procVars
  /\ UNCHANGED workerVars

\* the sessions of the process come one after the other: a session starts
\* when the one before it is closed
Turn(s) == \A t \in Sessions : t < s => spc[t] = "closed"

\* ------------------------------------------------------ specifications
\* Spec: the whole system while the transport does not fail. Sessions come
\* one after the other, each starts its worker, the broker delivers messages,
\* the sessions drain the queue.
Next ==
  \/ \E w \in Workers : WorkerConnect(w, TRUE)
  \/ \E w \in Workers : OnConnect(w, TRUE)
  \/ \E m \in SysMessages : BrokerPublish(m)
  \/ \E w \in Workers : OnMessage(w)
  \/ \E w \in Workers : QueuePut(w)
  \/ \E s \in Sessions, loadOk \in BOOLEAN, modelOk \in BOOLEAN, pubOk \in BOOLEAN :
       Turn(s) /\ SessionInit(s, loadOk, modelOk, pubOk)
  \/ \E s \in Sessions : ScriptRun(s)
  \/ \E s \in Sessions : PQ_Status(s)
  \/ \E s \in Sessions : PQ_Raw(s)
  \/ \E s \in Sessions, cls \in SysClassifierOutcomes, pub \in SysPublishOutcomes :
       PQ_Sensor(s, cls, pub)
  \/ \E s \in Sessions, writeOk \in BOOLEAN : PQ_Csv(s, writeOk)
  \/ \E s \in Sessions : SessionEnd(s)

Spec == Init /\ [][Next]_vars

\* SpecDrain: process_queue alone. The queue holds any items the workers can
\* have put there (every item type, every payload), no worker runs, session 1
\* runs the script again and again with every outcome of predict and publish.
DrainItems ==
  {StatusEvent(c, 0) : c \in BOOLEAN} \cup {ErrorEvent(0), RawEvent(0, 0)}
  \cup {SensorEvent(d, 0, 0) : d \in Datas}
\* the items get their arrival markers
Arrived(q) == [i \in 1..Len(q) |-> [q[i] EXCEPT !.seq = i, !.ts = i]]
QueuesUpTo(n) == UNION {[1..k -> DrainItems] : k \in 0..n}

\* the file found at CSV_LOG_PATH when the process starts (app.py:31,58): it
\* is whatever is on the disk, none or a table of any number of rows; the
\* rows carry arrival markers below those of the queue
OldRow(i) ==
  [ts |-> 0, suhu |-> "21.5", lembap |-> "60.0", light |-> "1200.0",
   rawLight |-> "300", prediksi_server |-> "Aman (0) - HIJAU",
   seq |-> i - (MaxLogs + 2)]
OldFiles == {[i \in 1..n |-> OldRow(i)] : n \in 0..(MaxLogs + 1)}

InitDrain ==
  /\ queue \in {Arrived(q) : q \in QueuesUpTo(MaxItems)}
  /\ pushed = Len(queue)
  /\ sent = 0
  /\ failures = 0
  /\ now = Len(queue)
  /\ pub_client = "unset"
  /\ csv_rows \in OldFiles
  /\ csv_exists = (csv_rows # <<>>)
  /\ wpc = [w \in Workers |-> "none"]
  /\ inflight = [w \in Workers |-> <<>>]
  /\ wpend = [w \in Workers |-> NoEvent]
  /\ spc = [s \in Sessions |-> "new"]
  /\ logs = [s \in Sessions |-> <<>>]
  /\ last = [s \in Sessions |-> <<>>]
  /\ last_status = [s \in Sessions |-> "unset"]
  /\ mqtt_thread_started = [s \in Sessions |-> FALSE]
  /\ ml_model = [s \in Sessions |-> FALSE]
  /\ updated = [s \in Sessions |-> FALSE]
  /\ item = [s \in Sessions |-> NoEvent]
  /\ ret = [s \in Sessions |-> "none"]
  /\ st_errors = [s \in Sessions |-> 0]
  /\ hist = [s \in Sessions |-> <<>>]
  /\ run = [s \in Sessions |-> NoRun]

NextDrain ==
  \/ \E loadOk \in BOOLEAN, modelOk \in BOOLEAN, pubOk \in BOOLEAN :
       SessionInit(1, loadOk, modelOk, pubOk)
  \/ ScriptRun(1)
  \/ PQ_Status(1)
  \/ PQ_Error(1)
  \/ PQ_Raw(1)
  \/ \E cls \in ClassifierOutcomes, pub \in PublishOutcomes : PQ_Sensor(1, cls, pub)
  \/ \E writeOk \in BOOLEAN : PQ_Csv(1, writeOk)

SpecDrain == InitDrain /\ [][NextDrain]_vars

\* SpecTransport: one session and its worker, with transport failures.
NextTransport ==
  \/ \E ok \in BOOLEAN : WorkerConnect(1, ok)
  \/ \E rc0 \in BOOLEAN : OnConnect(1, rc0)
  \/ ConnectionLost(1)
  \/ Reconnect(1)
  \/ LoopRaise(1)
  \/ \E m \in SysMessages : BrokerPublish(m)
  \/ OnMessage(1)
  \/ QueuePut(1)
  \/ \E loadOk \in BOOLEAN, modelOk \in BOOLEAN, pubOk \in BOOLEAN :
       SessionInit(1, loadOk, modelOk, pubOk)
  \/ ScriptRun(1)
  \/ PQ_Status(1)
  \/ PQ_Error(1)
  \/ PQ_Raw(1)
  \/ \E cls \in SysClassifierOutcomes, pub \in SysPublishOutcomes : PQ_Sensor(1, cls, pub)
  \/ \E writeOk \in BOOLEAN : PQ_Csv(1, writeOk)

SpecTransport == Init /\ [][NextTransport]_vars

\* SpecTransportFair: SpecTransport with the worker thread kept running: the
\* thread is scheduled again and again, so the step it is at is taken (a call
\* of connect with either outcome, the reconnect of loop_forever, the
\* callback of a delivered message, the put of the item it built)
SpecTransportFair ==
  /\ SpecTransport
  /\ WF_vars(\E ok \in BOOLEAN : WorkerConnect(1, ok))
  /\ WF_vars(Reconnect(1))
  /\ WF_vars(OnMessage(1))
  /\ WF_vars(QueuePut(1))

\* SpecShared: the sessions of the process run their scripts at the same
\* time (each in its own script thread) on the one GLOBAL_MQ. The queue holds
\* items put before, each session's worker connects and puts its status event
\* while the sessions drain. Nothing fails: the file is read and written, the
\* publisher connects, predict returns, publish sends.
SharedItems == {RawEvent(0, 0), SensorEvent(GoodData, 0, 0)}
InitShared ==
  /\ queue \in {Arrived(q) : q \in UNION {[1..k -> SharedItems] : k \in 0..MaxItems}}
  /\ pushed = Len(queue)
  /\ sent = 0
  /\ failures = 0
  /\ now = Len(queue)
  /\ pub_client = "unset"
  /\ csv_exists = FALSE
  /\ csv_rows = <<>>
  /\ wpc = [w \in Workers |-> "none"]
  /\ inflight = [w \in Workers |-> <<>>]
  /\ wpend = [w \in Workers |-> NoEvent]
  /\ spc = [s \in Sessions |-> "new"]
  /\ logs = [s \in Sessions |-> <<>>]
  /\ last = [s \in Sessions |-> <<>>]
  /\ last_status = [s \in Sessions |-> "unset"]
  /\ mqtt_thread_started = [s \in Sessions |-> FALSE]
  /\ ml_model = [s \in Sessions |-> FALSE]
  /\ updated = [s \in Sessions |-> FALSE]
  /\ item = [s \in Sessions |-> NoEvent]
  /\ ret = [s \in Sessions |-> "none"]
  /\ st_errors = [s \in Sessions |-> 0]
  /\ hist = [s \in Sessions |-> <<>>]
  /\ run = [s \in Sessions |-> NoRun]

NextShared ==
  \/ \E w \in Workers : WorkerConnect(w, TRUE)
  \/ \E w \in Workers : OnConnect(w, TRUE)
  \/ \E s \in Sessions, modelOk \in BOOLEAN : SessionInit(s, TRUE, modelOk, TRUE)
  \/ \E s \in Sessions : ScriptRun(s)
  \/ \E s \in Sessions : PQ_Status(s)
  \/ \E s \in Sessions : PQ_Raw(s)
  \/ \E s \in Sessions : PQ_Sensor(s, "0", "ok")
  \/ \E s \in Sessions : PQ_Csv(s, TRUE)

SpecShared == InitShared /\ [][NextShared]_vars

\* ------------------------------------------------------------ properties
\* the item session s took last is a sensor item (item[s] is set by the step
\* that takes and processes it, so the item has been processed)
TookSensor(s) == item[s].type = "sensor"
\* a payload value that is present and a number
Numeric(v) == v \notin {MISSING, BAD, NAN}
FeaturesNumeric(d) ==
  d.kind = "obj" /\ Numeric(d.suhu) /\ Numeric(d.lembap) /\ Numeric(d.light)
\* at least one of suhu, lembap, light is absent from the payload
FeatureAbsent(d) == d.kind = "obj" /\ MISSING \in {d.suhu, d.lembap, d.light}
\* process_queue appended exactly one record for the item session s took
\* last, and it is the newest record of the log and the snapshot
AppendedOne(s) ==
  /\ ret[s] # "raised"
  /\ last[s] # <<>>
  /\ last[s][1].seq = item[s].seq
  /\ logs[s] # <<>>
  /\ logs[s][Len(logs[s])] = last[s][1]
  /\ Cardinality({i \in 1..Len(hist[s]) : hist[s][i].seq = item[s].seq}) = 1
Tokens == {"LED_HIJAU", "LED_MERAH", "LED_KUNING"}

\* C1: a sensor item with suhu, lembap and light present and numeric, a loaded
\* classifier and a publisher client gets exactly one record; when predict
\* returned p the label is the interpretation of p, and the token published
\* and the command field are the command of p.
C1_OneRecordLabelCommand ==
  \A s \in Sessions :
    (TookSensor(s) /\ FeaturesNumeric(item[s].data) /\ ml_model[s] /\ pub_client = "client")
    => /\ AppendedOne(s)
       /\ run[s].called
       /\ LET row == last[s][1]
          IN row.prediksi_server_raw \in Predictions
             => /\ row.prediksi_server = Interpret(row.prediksi_server_raw)
                /\ row.perintah_terkirim = Command(row.prediksi_server_raw)
                /\ run[s].out = Command(row.prediksi_server_raw)

\* the n newest entries of l, oldest first
Newest(l, n) == [i \in 1..(IF Len(l) > n THEN n ELSE Len(l)) |->
                   l[i + (IF Len(l) > n THEN Len(l) - n ELSE 0)]]
SeqOf(l) == [i \in 1..Len(l) |-> l[i].seq]

C3_ArrivalOrder ==
  \A s \in Sessions : \A i, j \in 1..Len(logs[s]) :
    i < j => logs[s][i].seq < logs[s][j].seq
\* two records of a log whose timestamps are in the opposite order
C3_Witness ==
  \E s \in Sessions : \E i, j \in 1..Len(logs[s]) :
    i < j /\ logs[s][i].ts > logs[s][j].ts

\* the payload has a field that fails to parse: a non-numeric value, no
\* rawLight, or it is no object
ParseFails(d) ==
  \/ d.kind # "obj"
  \/ BAD \in {d.suhu, d.lembap, d.light, d.rawLight}
  \/ d.rawLight = MISSING

\* C4: a sensor item with a field that fails to parse does not make
\* process_queue raise; its record is appended with the field absent, and the
\* run goes on to drain the items behind it.
C4_ParseFailureContained ==
  \A s \in Sessions :
    (TookSensor(s) /\ ParseFails(item[s].data))
    => /\ AppendedOne(s)
       /\ item[s].data.suhu = BAD => last[s][1].suhu = "nan"
       /\ item[s].data.lembap = BAD => last[s][1].lembap = "nan"
       /\ item[s].data.light = BAD => last[s][1].light = "nan"
       /\ spc[s] = "done" => queue = <<>>

\* C5: a sensor item with suhu, lembap or light absent gets one record with
\* the label "N/A"; predict is not called, nothing is published, nothing raises.
C5_AbsentFeatureSkips ==
  \A s \in Sessions :
    (TookSensor(s) /\ FeatureAbsent(item[s].data))
    => /\ AppendedOne(s)
       /\ ~run[s].called
       /\ run[s].out = ""
       /\ last[s][1].prediksi_server = "N/A"

\* C6: in a run in which predict raised for an item, process_queue does not
\* raise, and when it returns it has appended one record for every sensor
\* item it drained.
C6_ClassifierFailureContained ==
  \A s \in Sessions :
    run[s].predictRaised
    => /\ ret[s] # "raised"
       /\ spc[s] = "done" => run[s].appended = run[s].sensors

\* C7: when the publish for a sensor item fails (no client, publish raises,
\* publish is rejected), the record is appended, its command field is a
\* publish-error marker (neither a token nor "N/A") and its label is the
\* interpretation of the prediction.
C7_PublishFailureMarked ==
  \A s \in Sessions :
    (TookSensor(s) /\ run[s].pub \in {"down", RAISE, "rejected"})
    => /\ AppendedOne(s)
       /\ last[s][1].perintah_terkirim \notin (Tokens \cup {"N/A"})
       /\ last[s][1].prediksi_server = Interpret(last[s][1].prediksi_server_raw)

\* the mapping table from the label, with the fail-safe for every other label
CommandOfLabel(l) ==
  CASE l = "Aman (0) - HIJAU" -> "LED_HIJAU"
    [] l = "TIDAK AMAN (1) - MERAH" -> "LED_MERAH"
    [] l = "Waspada (2) - KUNING" -> "LED_KUNING"
    [] OTHER -> "LED_MERAH"

\* C8: for every sensor item that got its record, the command of the
\* record's label (LED_MERAH for a label outside the table) was published.
C8_AlwaysCommand ==
  \A s \in Sessions :
    (TookSensor(s) /\ ret[s] # "raised" /\ last[s] # <<>> /\ last[s][1].seq = item[s].seq)
    => run[s].out = CommandOfLabel(last[s][1].prediksi_server)

\* process_queue has returned a value in session s
Returned(s) == spc[s] = "done" /\ ret[s] \in {"True", "False"}

\* C9 as stated: process_queue returns true exactly when the run appended a
\* record.
C9_TrueIffAppended ==
  \A s \in Sessions : Returned(s) => (ret[s] = "True" <=> run[s].appended > 0)
\* C9 as amended: process_queue returns true exactly when the run appended a
\* record or handled a status or error item; a run that drained nothing or
\* only raw items returns false.
C9_TrueIffUpdated ==
  \A s \in Sessions :
    Returned(s) => (ret[s] = "True" <=>
                      (run[s].appended > 0 \/ run[s].types \cap {"status", "error"} # {}))
\* a run that drained no sensor item, only status or error items, returned true
C9_Witness ==
  \E s \in Sessions :
    /\ Returned(s) /\ ret[s] = "True" /\ run[s].appended = 0
    /\ run[s].types # {} /\ run[s].types \subseteq {"status", "error"}

\* C10: at most one worker thread exists, and no inbound message is on the
\* queue twice.
C10_SingleWorker ==
  /\ Cardinality({w \in Workers : wpc[w] # "none"}) <= 1
  /\ \A i, j \in 1..Len(queue) :
       (i < j /\ queue[i].mid # 0) => queue[i].mid # queue[j].mid


\* C11: the drain never waits and loses nothing: no session is inside
\* q.get() while the queue is empty, the items on the queue are in arrival
\* order, and every item a session took arrived before the items still queued.
C11_DrainNeverBlocks ==
  /\ \A s \in Sessions : spc[s] = "get" => queue # <<>>
  /\ \A i, j \in 1..Len(queue) : i < j => queue[i].seq < queue[j].seq
  /\ \A s \in Sessions :
       (item[s] # NoEvent /\ queue # <<>>) => item[s].seq < queue[1].seq

\* C12: once process_queue has drained the queue, the last-known connection
\* status of the session is the state of the transport: connected exactly
\* when the worker's connection is up.
C12_StatusTracksTransport ==
  (/\ spc[1] = "done" /\ ret[1] \in {"True", "False"}
   /\ queue = <<>> /\ wpend[1] = NoEvent
   /\ wpc[1] \in {"online", "offline"})
  => (last_status[1] = "True" <=> wpc[1] = "online")

\* C13: in every state in which the log of a session is not empty, the
\* current-reading snapshot of the session is the last record of the log.
C13_SnapshotIsLatest ==
  \A s \in Sessions :
    logs[s] # <<>> => last[s] = <<logs[s][Len(logs[s])]>>

\* C14: in every state the timestamps of the records of a log are
\* non-decreasing in log order.
C14_TimestampsNonDecreasing ==
  \A s \in Sessions : \A i, j \in 1..Len(logs[s]) :
    i < j => logs[s][i].ts <= logs[s][j].ts

\* session s takes a step of process_queue on an empty queue: the script run
\* enters process_queue and finds the queue empty, or a run that took no item
\* goes through the end of process_queue and returns
EmptyRunStep(s) ==
  \/ spc[s] \in {"start", "done"} /\ spc'[s] = "csv"
  \/ spc[s] = "csv" /\ run[s].types = {} /\ spc'[s] = "done"

\* C15: a process_queue run on an empty queue returns false, leaves the log,
\* the snapshot, the connection status and the CSV file as they are, and
\* publishes nothing, however many such runs follow one another.
C15_EmptyRunNoEffect ==
  [][\A s \in Sessions :
       EmptyRunStep(s)
       => /\ logs'[s] = logs[s]
          /\ last'[s] = last[s]
          /\ last_status'[s] = last_status[s]
          /\ csv_exists' = csv_exists
          /\ csv_rows' = csv_rows
          /\ run'[s].out = ""
          /\ run'[s].appended = 0
          /\ spc'[s] = "done" => ret'[s] = "False"]_vars
\* a session that holds records, a snapshot and a file different from its log
\* has run process_queue on the empty queue, and it returned false
C15_Witness ==
  \E s \in Sessions :
    /\ spc[s] = "done" /\ ret[s] = "False" /\ run[s].types = {}
    /\ logs[s] # <<>> /\ last[s] # <<>>
    /\ csv_rows # ExportLogs(logs[s])

\* session s takes an item of type t off the queue
Takes(s, t) == item'[s] # item[s] /\ item'[s].type = t

C17_MirrorAfterAppend ==
  \A s \in Sessions :
    (spc[s] = "done" /\ run[s].appended > 0)
    => /\ ret[s] = "True"
       /\ run[s].write \in {"ok", "failed"}
       /\ run[s].write = "ok" => (csv_exists /\ csv_rows = ExportLogs(logs[s]))

\* C18: a malformed payload is not dropped silently: while a process_queue
\* run has taken nothing but raw items, the occurrence of the raw item shows
\* in the state of the pipeline (the run is marked updated, or a message was
\* surfaced, or a record was appended).
C18_RawObservable ==
  \A s \in Sessions :
    (item[s].type = "raw" /\ run[s].types = {"raw"})
    => (updated[s] \/ st_errors[s] > 0 \/ run[s].appended > 0)

\* the positions of a running worker
Running == {"connect", "loop", "online", "offline"}
\* connect or loop_forever of worker 1 raises in this step
RaiseStep == failures' = failures + 1 /\ "connect" \in {wpc[1], wpc'[1]}

\* C19: the worker, once started, never ends; when connect or loop_forever
\* raises it puts an error item on the queue and is at the next connect;
\* a lost connection is followed by a new connection attempt, and a worker
\* waiting to connect does connect once the transport has stopped failing.
C19_WorkerRetriesForever ==
  /\ [](mqtt_thread_started[1] => wpc[1] \in Running)
  /\ [][RaiseStep
        => /\ wpc'[1] = "connect"
           /\ Len(queue') = Len(queue) + 1
           /\ queue'[Len(queue')].type = "error"]_vars
  /\ (wpc[1] = "offline") ~> (wpc[1] \in {"loop", "connect"})
  /\ (wpc[1] = "connect" /\ failures = MaxFail) ~> (wpc[1] = "loop")
\* the session has taken the error item of a failure and the worker is
\* connected again
C19_Witness == item[1].type = "error" /\ wpc[1] = "online"

\* C20: every record of a log carries every field the page reads: the edge
\* label, the command and the raw prediction are there for the records loaded
\* from the CSV file as for the records appended.
C20_RoundTripKeepsFields ==
  \A s \in Sessions : \A i \in 1..Len(logs[s]) :
    NOKEY \notin {logs[s][i].status_esp, logs[s][i].perintah_terkirim,
                  logs[s][i].prediksi_server_raw}

====
